---- MODULE Spec2Model ----
(***************************************************************************)
(* Model of spartan-video-extractor (src/src/index.ts): the file_shared    *)
(* event handler, extractFrames, formatTimestamp, cleanup and the health   *)
(* server.  Text is modelled as sequences of one-character strings, so     *)
(* that extname, toLowerCase, startsWith, padStart and sort are computed.  *)
(***************************************************************************)
EXTENDS Integers, Sequences, FiniteSets, TLC

(***************************************************************************)
(* Bounds of the model.                                                    *)
(***************************************************************************)
\* durations are multiples of 1/DurationResolution seconds (ffprobe reports fractions)
DurationResolution == 2
\* longest probed duration, in seconds, enumerated for the interval computation
MaxDuration == 40
\* largest requested interval and cap enumerated for the interval computation
MaxInterval == 5
MaxCap == 12

(***************************************************************************)
(* Program constants.                                                      *)
(***************************************************************************)
FRAME_INTERVAL == 3
MAX_FRAMES == 10
UPLOAD_DELAY_MS == 500

\* an optional value (`T | undefined`): None or Some(v)
None == {}
Some(v) == {v}
The(o) == CHOOSE v \in o : TRUE

(***************************************************************************)
(* Strings as sequences of characters.                                     *)
(***************************************************************************)
UpperChars == <<"A","B","C","D","E","F","G","H","I","J","K","L","M",
                "N","O","P","Q","R","S","T","U","V","W","X","Y","Z">>
LowerChars == <<"a","b","c","d","e","f","g","h","i","j","k","l","m",
                "n","o","p","q","r","s","t","u","v","w","x","y","z">>
DigitChars == <<"0","1","2","3","4","5","6","7","8","9">>

\* String.prototype.toLowerCase, one character
ToLowerChar(c) ==
  IF \E k \in 1..Len(UpperChars) : UpperChars[k] = c
  THEN LowerChars[CHOOSE k \in 1..Len(UpperChars) : UpperChars[k] = c]
  ELSE c

\* String.prototype.toLowerCase
toLowerCase(s) == [k \in 1..Len(s) |-> ToLowerChar(s[k])]

\* String.prototype.startsWith
startsWith(s, prefix) ==
  /\ Len(s) >= Len(prefix)
  /\ \A k \in 1..Len(prefix) : s[k] = prefix[k]

\* String.prototype.endsWith
endsWith(s, suffix) ==
  /\ Len(s) >= Len(suffix)
  /\ \A k \in 1..Len(suffix) : s[Len(s) - Len(suffix) + k] = suffix[k]

\* Array.prototype.includes on an array of strings
includes(arr, s) == \E k \in 1..Len(arr) : arr[k] = s

\* path.extname (posix): the text from the last "." of the last path portion
\* to its end; "" when that portion has no ".", starts with its only ".",
\* or is "..".  Trailing separators are ignored.
extname(p) ==
  LET nonSlash == {k \in 1..Len(p) : p[k] # "/"}
  IN IF nonSlash = {} THEN <<>>
     ELSE
       LET end       == CHOOSE k \in nonSlash : \A j \in nonSlash : j <= k
           slashes   == {k \in 1..end : p[k] = "/"}
           startPart == IF slashes = {} THEN 1
                        ELSE 1 + CHOOSE k \in slashes : \A j \in slashes : j <= k
           dots      == {k \in startPart..end : p[k] = "."}
       IN IF dots = {} THEN <<>>
          ELSE
            LET startDot == CHOOSE k \in dots : \A j \in dots : j <= k
            IN IF startDot = startPart THEN <<>>
               ELSE IF p[startPart] = "." /\ startDot = end /\ startDot = startPart + 1
                    THEN <<>>
                    ELSE SubSeq(p, startDot, end)

VIDEO_EXTENSIONS ==
  << <<".","m","p","4">>, <<".","m","o","v">>, <<".","a","v","i">>,
     <<".","m","k","v">>, <<".","w","e","b","m">>, <<".","m","4","v">>,
     <<".","w","m","v">>, <<".","f","l","v">> >>

VideoMimePrefix == <<"v","i","d","e","o","/">>

\* `x || ''` for an optional string
OrEmpty(x) == IF x = None THEN <<>> ELSE The(x)

\* isVideo with the extension compared as written (toLowerCase left out)
isVideoCaseSensitive(file) ==
  LET fileName == OrEmpty(file.name)
      fileExt  == extname(fileName)
      mimeType == OrEmpty(file.mimetype)
  IN includes(VIDEO_EXTENSIONS, fileExt) \/ startsWith(mimeType, VideoMimePrefix)

\* isVideo accepting every name that has an extension
isVideoAnyExtension(file) ==
  LET fileName == OrEmpty(file.name)
      fileExt  == toLowerCase(extname(fileName))
      mimeType == OrEmpty(file.mimetype)
  IN fileExt # <<>> \/ startsWith(mimeType, VideoMimePrefix)

\* the handler's video test
isVideo(file) ==
  LET fileName == OrEmpty(file.name)
      fileExt  == toLowerCase(extname(fileName))
      mimeType == OrEmpty(file.mimetype)
  IN includes(VIDEO_EXTENSIONS, fileExt) \/ startsWith(mimeType, VideoMimePrefix)

(***************************************************************************)
(* extractFrames: the interval computation.  A duration is a number of     *)
(* 1/DurationResolution seconds, or None when the probe reports none.      *)
(***************************************************************************)
\* `metadata.format.duration || 0`
DurationOrZero(d) == IF d = None THEN 0 ELSE The(d)

\* Math.floor(duration / n) for a duration in units and a whole number n > 0
FloorDiv(durationUnits, n) == durationUnits \div (DurationResolution * n)

actualInterval(probed, interval, maxFrames) ==
  LET duration        == DurationOrZero(probed)
      potentialFrames == FloorDiv(duration, interval)
  IN IF potentialFrames > maxFrames
     THEN FloorDiv(duration, maxFrames)
     ELSE interval

(***************************************************************************)
(* formatTimestamp                                                         *)
(***************************************************************************)
RECURSIVE DecimalDigits(_)
\* Number.prototype.toString for a whole number >= 0
DecimalDigits(n) ==
  IF n < 10 THEN <<DigitChars[n + 1]>>
  ELSE DecimalDigits(n \div 10) \o <<DigitChars[(n % 10) + 1]>>

RECURSIVE padEnd(_, _, _)
\* padStart that puts the filler after the digits
padEnd(s, width, fill) ==
  IF Len(s) >= width THEN s ELSE padEnd(s \o <<fill>>, width, fill)

RECURSIVE padStart(_, _, _)
\* String.prototype.padStart with a one-character filler
padStart(s, width, fill) ==
  IF Len(s) >= width THEN s ELSE padStart(<<fill>> \o s, width, fill)

\* formatTimestamp without the padStart of the seconds
formatTimestampUnpadded(seconds) ==
  LET mins == seconds \div 60
      secs == seconds % 60
  IN DecimalDigits(mins) \o <<":">> \o DecimalDigits(secs)

formatTimestamp(seconds) ==
  LET mins == seconds \div 60
      secs == seconds % 60
  IN DecimalDigits(mins) \o <<":">> \o padStart(DecimalDigits(secs), 2, "0")

(***************************************************************************)
(* The frame files: ffmpeg's output pattern and Array.prototype.sort.      *)
(***************************************************************************)
\* the characters of the model in UTF-16 code unit order
CharOrder == <<".", "/">> \o DigitChars \o <<":">> \o UpperChars \o <<"_">> \o LowerChars

CharCode(c) == CHOOSE k \in 1..Len(CharOrder) : CharOrder[k] = c

\* a < b as the default comparator of Array.prototype.sort orders strings
StrLess(a, b) ==
  \E k \in 1..(Len(a) + 1) :
    /\ k <= Len(b)
    /\ \A j \in 1..(k - 1) : a[j] = b[j]
    /\ (k = Len(a) + 1 \/ CharCode(a[k]) < CharCode(b[k]))

RECURSIVE sortDescending(_)
\* sort with the comparison inverted
sortDescending(names) ==
  IF names = {} THEN <<>>
  ELSE LET first == CHOOSE a \in names : \A b \in names \ {a} : StrLess(b, a)
       IN <<first>> \o sortDescending(names \ {first})

RECURSIVE sort(_)
\* .sort() of the directory listing (file names are distinct)
sort(names) ==
  IF names = {} THEN <<>>
  ELSE LET first == CHOOSE a \in names : \A b \in names \ {a} : StrLess(a, b)
       IN <<first>> \o sort(names \ {first})

JpgSuffix == <<".", "j", "p", "g">>

\* path.join(outputDir, 'frame_%03d.jpg') as ffmpeg expands it for output number n
FrameFileName(n) ==
  <<"f","r","a","m","e","_">> \o padStart(DecimalDigits(n), 3, "0") \o JpgSuffix

\* fs.readdirSync(outputDir).filter(f => f.endsWith('.jpg')).sort().map(f => path.join(outputDir, f))
ListFrames(dir, entries) ==
  LET jpgs   == {f \in entries : endsWith(f, JpgSuffix)}
      sorted == sort(jpgs)
  IN [k \in 1..Len(sorted) |-> [dir |-> dir, name |-> sorted[k]]]

(***************************************************************************)
(* The platform's side of a file_shared event.                             *)
(***************************************************************************)
EventIds == {1, 2}

\* the event payload: file_id and channel_id
EventOf(e) == [file_id |-> e, channel_id |-> "C1"]

ShareTs == "1700000000.000100"

\* values of file.shares.public / file.shares.private: channel -> list of shares
SharesHere  == [c \in {"C1"} |-> <<[ts |-> Some(ShareTs)]>>]
SharesEmpty == [c \in {"C1"} |-> <<>>]
SharesElsewhere == [c \in {"C9"} |-> <<[ts |-> Some(ShareTs)]>>]

CatalogShares ==
  { None,
    Some([public |-> Some(SharesHere),      private |-> None]),
    Some([public |-> None,                  private |-> Some(SharesHere)]),
    Some([public |-> Some(SharesEmpty),     private |-> None]),
    Some([public |-> Some(SharesElsewhere), private |-> Some(SharesHere)]) }

CatalogNames ==
  { None,
    Some(<<"c",".","M","P","4">>),
    Some(<<"n",".","t","x","t">>) }

CatalogMimes ==
  { None,
    Some(<<"v","i","d","e","o","/","m","p","4">>),
    Some(<<"t","e","x","t","/","x">>) }

DownloadUrl == "https://files/download/c"
PrivateUrl  == "https://files/private/c"

\* the file descriptors files.info may resolve
FileCatalog ==
  [ name : CatalogNames, mimetype : CatalogMimes,
    url_private_download : {None, Some(DownloadUrl)},
    url_private : {None, Some(PrivateUrl)},
    shares : CatalogShares ]

\* durations ffprobe may report for a downloaded video, in units
ProbeDurations ==
  { None, Some(30 * DurationResolution), Some(600 * DurationResolution) }

(***************************************************************************)
(* Message texts.                                                          *)
(***************************************************************************)
ProcessingText(fileName) ==
  [icon |-> "video_camera",
   words |-> <<"Processing", "video", "${fileName}...", "extracting", "key",
               "frames", "for", "analysis.">>,
   fileName |-> fileName, count |-> 0]

NoUrlText ==
  [icon |-> "cross_mark",
   words |-> <<"Could", "not", "download", "video", "-", "no", "URL", "available.">>,
   fileName |-> <<>>, count |-> 0]

NoFramesText ==
  [icon |-> "cross_mark",
   words |-> <<"Could", "not", "extract", "frames", "from", "video.">>,
   fileName |-> <<>>, count |-> 0]

ExtractedText(n, fileName) ==
  [icon |-> "video_camera",
   words |-> <<"Extracted", "${frames.length}", "key", "frames", "from",
               "${fileName}.", "Uploading...">>,
   fileName |-> fileName, count |-> n]

CompleteText(n, fileName) ==
  [icon |-> "check_mark",
   words |-> <<"Extracted", "${frames.length}", "key", "frames", "from",
               "${fileName}.", "Kate", "can", "now", "analyze", "these", "images!">>,
   fileName |-> fileName, count |-> n]

(***************************************************************************)
(* State.                                                                  *)
(***************************************************************************)
VARIABLES
  pending,     \* events the platform has yet to deliver
  pc,          \* pc[e]: the await the handler of event e is suspended at
  file,        \* handler local `file`
  downloadUrl, \* handler local `downloadUrl`
  messageTs,   \* handler local `messageTs`
  statusMsg,   \* handler local `statusMsg` (the ts of the posted message)
  tempDir,     \* handler local `tempDir`
  frames,      \* handler local `frames`
  i,           \* handler local `i` of the upload loop
  ffmpegRun,   \* the options extractFrames gave ffmpeg
  cleanups,    \* number of calls of cleanup made by the handler of e
  log,         \* log[e]: the calls made by the handler of e and their results
  disk,        \* the temporary directories that exist, with their content
  dirsMade,    \* number of directories mkdtempSync has made
  messages,    \* the messages posted by chat.postMessage, by ts
  reactions,   \* the reactions on shared messages
  uploaded,    \* the files uploaded by files.uploadV2, in order
  requested,   \* the HTTP requests made by axios, in order
  call,        \* the function call under evaluation (function specifications)
  ret          \* its result

locals == <<file, downloadUrl, messageTs, statusMsg, tempDir, frames, i, ffmpegRun>>
world  == <<disk, dirsMade, messages, reactions, uploaded, requested>>
hvars  == <<pending, pc, cleanups, log, locals, world>>
pvars  == <<call, ret>>
vars   == <<hvars, pvars>>

NoCall == [fn |-> "none"]

HandlerInit ==
  /\ pc        = [e \in EventIds |-> "idle"]
  /\ file      = [e \in EventIds |-> None]
  /\ downloadUrl = [e \in EventIds |-> None]
  /\ messageTs = [e \in EventIds |-> None]
  /\ statusMsg = [e \in EventIds |-> None]
  /\ tempDir   = [e \in EventIds |-> None]
  /\ frames    = [e \in EventIds |-> <<>>]
  /\ i         = [e \in EventIds |-> 0]
  /\ ffmpegRun = [e \in EventIds |-> None]
  /\ cleanups  = [e \in EventIds |-> 0]
  /\ log       = [e \in EventIds |-> <<>>]
  /\ disk      = [d \in {} |-> None]
  /\ dirsMade  = 0
  /\ messages  = <<>>
  /\ reactions = {}
  /\ uploaded  = <<>>
  /\ requested = <<>>

Init ==
  /\ pending = {1}
  /\ HandlerInit
  /\ call = NoCall
  /\ ret = None

(***************************************************************************)
(* Helpers of the handler.                                                 *)
(***************************************************************************)
En(op, k, ev) == [op |-> op, k |-> k, ev |-> ev]

Logged(e, entries) == log' = [log EXCEPT ![e] = @ \o entries]

\* the outer catch: console.error, and the handler ends
CatchEntry == En("console.error", 0, "call")

\* file.shares?.public || file.shares?.private ; shares[channelId][0]?.ts
ResolveMessageTs(f, channelId) ==
  LET shares == IF f.shares = None THEN None
                ELSE IF The(f.shares).public # None THEN The(f.shares).public
                ELSE The(f.shares).private
  IN IF shares # None /\ channelId \in DOMAIN The(shares)
     THEN IF Len(The(shares)[channelId]) >= 1
          THEN The(shares)[channelId][1].ts
          ELSE None
     ELSE None

\* ResolveDownloadUrl that prefers the generic private URL
ResolveDownloadUrlPrivateFirst(f) ==
  IF f.url_private # None THEN f.url_private ELSE f.url_private_download

\* file.url_private_download || file.url_private
ResolveDownloadUrl(f) ==
  IF f.url_private_download # None THEN f.url_private_download ELSE f.url_private

\* the request axios is given: GET of the resolved URL as a stream, with the
\* bot token as bearer
AxiosRequest(e, url) ==
  [by            |-> e,
   method        |-> "GET",
   url           |-> url,
   responseType  |-> "stream",
   authorization |-> <<"Bearer", "SLACK_BOT_TOKEN">>]

\* a status change made by posting a new message with the text
UpdatedByNewPost(ts, text) == Append(messages, [messages[ts] EXCEPT !.text = text])

\* chat.update applied to the posted message
Updated(ts, text) == [messages EXCEPT ![ts].text = text]

\* rmSync that removes every directory under the temp root
RemovedEveryWorkspace(dir) == [d \in {} |-> disk[d]]

\* fs.rmSync(dir, { recursive: true, force: true }) that succeeds
Removed(dir) == [d \in (DOMAIN disk) \ {dir} |-> disk[d]]

\* cleanup(dir): rmSync, whose failure is logged and swallowed
cleanup(e, dir, rmOk) ==
  /\ disk' = IF rmOk THEN Removed(dir) ELSE disk
  /\ cleanups' = [cleanups EXCEPT ![e] = @ + 1]

CleanupEntries(rmOk) ==
  <<En("cleanup", 0, "call"), En("fs.rmSync", 0, IF rmOk THEN "ok" ELSE "fail")>>

\* UploadRequest with the timestamp computed from the interval given to ffmpeg
UploadRequestEffective(e, idx) ==
  [by         |-> e,
   channel_id |-> EventOf(e).channel_id,
   thread_ts  |-> messageTs[e],
   filename   |-> [position |-> idx + 1, total |-> Len(frames[e])],
   comment    |-> [position |-> idx + 1, total |-> Len(frames[e]),
                   timestamp |-> formatTimestamp(idx * The(ffmpegRun[e]).interval)],
   file       |-> frames[e][idx + 1]]

\* the caption and file name of the upload of frames[idx + 1] (idx counts from 0)
UploadRequest(e, idx) ==
  [by         |-> e,
   channel_id |-> EventOf(e).channel_id,
   thread_ts  |-> messageTs[e],
   filename   |-> [position |-> idx + 1, total |-> Len(frames[e])],
   comment    |-> [position |-> idx + 1, total |-> Len(frames[e]),
                   timestamp |-> formatTimestamp(idx * FRAME_INTERVAL)],
   file       |-> frames[e][idx + 1]]

(***************************************************************************)
(* The file_shared handler, one action per resumption of the handler: the  *)
(* awaited call returns or throws, and the code runs on to the next await. *)
(***************************************************************************)
\* the platform delivers the event; the handler calls files.info
Deliver(e) ==
  /\ e \in pending
  /\ pc[e] = "idle"
  /\ pending' = pending \ {e}
  /\ pc' = [pc EXCEPT ![e] = "files.info"]
  /\ Logged(e, <<En("files.info", 0, "call")>>)
  /\ UNCHANGED <<cleanups, locals, world, pvars>>

\* files.info throws
FilesInfoFails(e) ==
  /\ pc[e] = "files.info"
  /\ pc' = [pc EXCEPT ![e] = "done"]
  /\ Logged(e, <<En("files.info", 0, "fail"), CatchEntry>>)
  /\ UNCHANGED <<pending, cleanups, locals, world, pvars>>

\* files.info returns no file
FilesInfoNoFile(e) ==
  /\ pc[e] = "files.info"
  /\ pc' = [pc EXCEPT ![e] = "done"]
  /\ Logged(e, <<En("files.info", 0, "ok")>>)
  /\ UNCHANGED <<pending, cleanups, locals, world, pvars>>

\* files.info returns a file that is not a video
FilesInfoNotVideo(e) ==
  /\ pc[e] = "files.info"
  /\ \E f \in FileCatalog :
       /\ ~isVideo(f)
       /\ file' = [file EXCEPT ![e] = Some(f)]
  /\ pc' = [pc EXCEPT ![e] = "done"]
  /\ Logged(e, <<En("files.info", 0, "ok")>>)
  /\ UNCHANGED <<pending, cleanups, downloadUrl, messageTs, statusMsg, tempDir, frames, i,
                 ffmpegRun, world, pvars>>

\* files.info returns a video: resolve messageTs, react or post the status
FilesInfoVideo(e) ==
  /\ pc[e] = "files.info"
  /\ \E f \in FileCatalog :
       LET ts == ResolveMessageTs(f, EventOf(e).channel_id)
       IN /\ isVideo(f)
          /\ file' = [file EXCEPT ![e] = Some(f)]
          /\ messageTs' = [messageTs EXCEPT ![e] = ts]
          /\ IF ts # None
             THEN /\ pc' = [pc EXCEPT ![e] = "reactions.add"]
                  /\ Logged(e, <<En("files.info", 0, "ok"),
                                 En("reactions.add", 0, "call")>>)
             ELSE /\ pc' = [pc EXCEPT ![e] = "chat.postMessage"]
                  /\ Logged(e, <<En("files.info", 0, "ok"),
                                 En("chat.postMessage", 0, "call")>>)
  /\ UNCHANGED <<pending, cleanups, downloadUrl, statusMsg, tempDir, frames, i, ffmpegRun,
                 world, pvars>>

\* ReactionAddSettles without the .catch: a rejected reactions.add is thrown
ReactionAddSettlesFatal(e) ==
  /\ pc[e] = "reactions.add"
  /\ \E ok \in BOOLEAN :
       /\ reactions' = IF ok
                       THEN reactions \cup {<<The(messageTs[e]), "hourglass_flowing_sand">>}
                       ELSE reactions
       /\ IF ok
          THEN /\ pc' = [pc EXCEPT ![e] = "chat.postMessage"]
               /\ Logged(e, <<En("reactions.add", 0, "ok"),
                              En("chat.postMessage", 0, "call")>>)
          ELSE /\ pc' = [pc EXCEPT ![e] = "done"]
               /\ Logged(e, <<En("reactions.add", 0, "fail"), CatchEntry>>)
  /\ UNCHANGED <<pending, cleanups, locals, disk, dirsMade, messages, uploaded, requested, pvars>>

\* reactions.add('hourglass_flowing_sand') settles; a failure is swallowed
ReactionAddSettles(e) ==
  /\ pc[e] = "reactions.add"
  /\ \E ok \in BOOLEAN :
       /\ reactions' = IF ok
                       THEN reactions \cup {<<The(messageTs[e]), "hourglass_flowing_sand">>}
                       ELSE reactions
       /\ Logged(e, <<En("reactions.add", 0, IF ok THEN "ok" ELSE "fail"),
                      En("chat.postMessage", 0, "call")>>)
  /\ pc' = [pc EXCEPT ![e] = "chat.postMessage"]
  /\ UNCHANGED <<pending, cleanups, locals, disk, dirsMade, messages, uploaded, requested, pvars>>

\* chat.postMessage throws
PostMessageFails(e) ==
  /\ pc[e] = "chat.postMessage"
  /\ pc' = [pc EXCEPT ![e] = "done"]
  /\ Logged(e, <<En("chat.postMessage", 0, "fail"), CatchEntry>>)
  /\ UNCHANGED <<pending, cleanups, locals, world, pvars>>

\* the message chat.postMessage creates
PostedMessage(e) ==
  [channel   |-> EventOf(e).channel_id,
   thread_ts |-> messageTs[e],
   text      |-> ProcessingText(OrEmpty(The(file[e]).name)),
   by        |-> e]

\* PostMessageNoUrl that makes the workspace before it looks for the URL
PostMessageNoUrlAfterWorkspace(e) ==
  /\ pc[e] = "chat.postMessage"
  /\ ResolveDownloadUrl(The(file[e])) = None
  /\ messages' = Append(messages, PostedMessage(e))
  /\ downloadUrl' = [downloadUrl EXCEPT ![e] = ResolveDownloadUrl(The(file[e]))]
  /\ statusMsg' = [statusMsg EXCEPT ![e] = Some(Len(messages) + 1)]
  /\ dirsMade' = dirsMade + 1
  /\ tempDir' = [tempDir EXCEPT ![e] = Some(dirsMade + 1)]
  /\ disk' = [d \in (DOMAIN disk) \cup {dirsMade + 1} |->
                IF d = dirsMade + 1
                THEN [owner |-> e, video |-> "absent", framesDir |-> TRUE, entries |-> {}]
                ELSE disk[d]]
  /\ pc' = [pc EXCEPT ![e] = "chat.update.nourl"]
  /\ Logged(e, <<En("chat.postMessage", 0, "ok"), En("fs.mkdtempSync", 0, "ok"),
                 En("fs.mkdirSync", 0, "ok"), En("chat.update.nourl", 0, "call")>>)
  /\ UNCHANGED <<pending, cleanups, file, messageTs, frames, i, ffmpegRun,
                 reactions, uploaded, requested, pvars>>

\* chat.postMessage returns and the file has no download URL: update the status
PostMessageNoUrl(e) ==
  /\ pc[e] = "chat.postMessage"
  /\ ResolveDownloadUrl(The(file[e])) = None
  /\ messages' = Append(messages, PostedMessage(e))
  /\ downloadUrl' = [downloadUrl EXCEPT ![e] = ResolveDownloadUrl(The(file[e]))]
  /\ statusMsg' = [statusMsg EXCEPT ![e] = Some(Len(messages) + 1)]
  /\ pc' = [pc EXCEPT ![e] = "chat.update.nourl"]
  /\ Logged(e, <<En("chat.postMessage", 0, "ok"), En("chat.update.nourl", 0, "call")>>)
  /\ UNCHANGED <<pending, cleanups, file, messageTs, tempDir, frames, i, ffmpegRun,
                 disk, dirsMade, reactions, uploaded, requested, pvars>>

\* chat.postMessage returns, there is a URL, and mkdtempSync throws
PostMessageMkdtempFails(e) ==
  /\ pc[e] = "chat.postMessage"
  /\ ResolveDownloadUrl(The(file[e])) # None
  /\ messages' = Append(messages, PostedMessage(e))
  /\ downloadUrl' = [downloadUrl EXCEPT ![e] = ResolveDownloadUrl(The(file[e]))]
  /\ statusMsg' = [statusMsg EXCEPT ![e] = Some(Len(messages) + 1)]
  /\ pc' = [pc EXCEPT ![e] = "done"]
  /\ Logged(e, <<En("chat.postMessage", 0, "ok"), En("fs.mkdtempSync", 0, "fail"),
                 CatchEntry>>)
  /\ UNCHANGED <<pending, cleanups, file, messageTs, tempDir, frames, i, ffmpegRun,
                 disk, dirsMade, reactions, uploaded, requested, pvars>>

\* chat.postMessage returns, there is a URL: the workspace is made (mkdirSync of
\* the frames directory may throw) and the download is requested
PostMessageDownload(e) ==
  /\ pc[e] = "chat.postMessage"
  /\ ResolveDownloadUrl(The(file[e])) # None
  /\ messages' = Append(messages, PostedMessage(e))
  /\ downloadUrl' = [downloadUrl EXCEPT ![e] = ResolveDownloadUrl(The(file[e]))]
  /\ statusMsg' = [statusMsg EXCEPT ![e] = Some(Len(messages) + 1)]
  /\ dirsMade' = dirsMade + 1
  /\ tempDir' = [tempDir EXCEPT ![e] = Some(dirsMade + 1)]
  /\ \E mkdirOk \in BOOLEAN :
       /\ disk' = [d \in (DOMAIN disk) \cup {dirsMade + 1} |->
                     IF d = dirsMade + 1
                     THEN [owner |-> e, video |-> "absent", framesDir |-> mkdirOk,
                           entries |-> {}]
                     ELSE disk[d]]
       /\ IF mkdirOk
          THEN /\ pc' = [pc EXCEPT ![e] = "axios"]
               /\ requested' = Append(requested,
                                      AxiosRequest(e, ResolveDownloadUrl(The(file[e]))))
               /\ Logged(e, <<En("chat.postMessage", 0, "ok"),
                              En("fs.mkdtempSync", 0, "ok"), En("fs.mkdirSync", 0, "ok"),
                              En("axios", 0, "call")>>)
          ELSE /\ pc' = [pc EXCEPT ![e] = "done"]
               /\ requested' = requested
               /\ Logged(e, <<En("chat.postMessage", 0, "ok"),
                              En("fs.mkdtempSync", 0, "ok"), En("fs.mkdirSync", 0, "fail"),
                              CatchEntry>>)
  /\ UNCHANGED <<pending, cleanups, file, messageTs, frames, i, ffmpegRun,
                 reactions, uploaded, pvars>>

\* chat.update('Could not download video - no URL available.') settles
UpdateNoUrlSettles(e) ==
  /\ pc[e] = "chat.update.nourl"
  /\ \E ok \in BOOLEAN :
       IF ok
       THEN /\ messages' = Updated(The(statusMsg[e]), NoUrlText)
            /\ Logged(e, <<En("chat.update.nourl", 0, "ok")>>)
       ELSE /\ messages' = messages
            /\ Logged(e, <<En("chat.update.nourl", 0, "fail"), CatchEntry>>)
  /\ pc' = [pc EXCEPT ![e] = "done"]
  /\ UNCHANGED <<pending, cleanups, locals, disk, dirsMade, reactions, uploaded, requested, pvars>>

\* the download request fails (network error or non-2xx status)
AxiosFails(e) ==
  /\ pc[e] = "axios"
  /\ pc' = [pc EXCEPT ![e] = "done"]
  /\ Logged(e, <<En("axios", 0, "fail"), CatchEntry>>)
  /\ UNCHANGED <<pending, cleanups, locals, world, pvars>>

\* the response arrives: createWriteStream, pipe, await the writer
AxiosReturns(e) ==
  /\ pc[e] = "axios"
  /\ disk' = [disk EXCEPT ![The(tempDir[e])].video = "partial"]
  /\ pc' = [pc EXCEPT ![e] = "writer"]
  /\ Logged(e, <<En("axios", 0, "ok"), En("writer", 0, "call")>>)
  /\ UNCHANGED <<pending, cleanups, locals, dirsMade, messages, reactions, uploaded, requested, pvars>>

\* the writer emits 'error': the promise rejects
WriterError(e) ==
  /\ pc[e] = "writer"
  /\ pc' = [pc EXCEPT ![e] = "done"]
  /\ Logged(e, <<En("writer", 0, "fail"), CatchEntry>>)
  /\ UNCHANGED <<pending, cleanups, locals, world, pvars>>

\* the response stream breaks off: pipe does not end the writer, which emits
\* neither 'finish' nor 'error', and the promise never settles
ResponseInterrupted(e) ==
  /\ pc[e] = "writer"
  /\ pc' = [pc EXCEPT ![e] = "stalled"]
  /\ Logged(e, <<En("response", 0, "fail")>>)
  /\ UNCHANGED <<pending, cleanups, locals, world, pvars>>

\* the writer emits 'finish': extractFrames starts with ffprobe
WriterFinish(e) ==
  /\ pc[e] = "writer"
  /\ disk' = [disk EXCEPT ![The(tempDir[e])].video = "complete"]
  /\ pc' = [pc EXCEPT ![e] = "ffprobe"]
  /\ Logged(e, <<En("writer", 0, "ok"), En("ffprobe", 0, "call")>>)
  /\ UNCHANGED <<pending, cleanups, locals, dirsMade, messages, reactions, uploaded, requested, pvars>>

\* ffprobe reports an error: extractFrames rejects
FfprobeFails(e) ==
  /\ pc[e] = "ffprobe"
  /\ pc' = [pc EXCEPT ![e] = "done"]
  /\ Logged(e, <<En("ffprobe", 0, "fail"), CatchEntry>>)
  /\ UNCHANGED <<pending, cleanups, locals, world, pvars>>

\* ffprobe reports the metadata: the interval is computed and ffmpeg is run
FfprobeReturns(e) ==
  /\ pc[e] = "ffprobe"
  /\ \E probed \in ProbeDurations :
       ffmpegRun' = [ffmpegRun EXCEPT ![e] =
                       Some([probed   |-> probed,
                             interval |-> actualInterval(probed, FRAME_INTERVAL, MAX_FRAMES),
                             frames_v |-> MAX_FRAMES])]
  /\ pc' = [pc EXCEPT ![e] = "ffmpeg"]
  /\ Logged(e, <<En("ffprobe", 0, "ok"), En("ffmpeg", 0, "call")>>)
  /\ UNCHANGED <<pending, cleanups, downloadUrl, file, messageTs, statusMsg, tempDir, frames, i,
                 world, pvars>>

\* ffmpeg emits 'error': extractFrames rejects
FfmpegFails(e) ==
  /\ pc[e] = "ffmpeg"
  /\ pc' = [pc EXCEPT ![e] = "done"]
  /\ Logged(e, <<En("ffmpeg", 0, "fail"), CatchEntry>>)
  /\ UNCHANGED <<pending, cleanups, locals, world, pvars>>

\* ffmpeg emits 'end' having written n frame files: the listing is resolved and
\* the handler reports no frames, or the number extracted
FfmpegWrote(e, n) ==
  /\ pc[e] = "ffmpeg"
  /\ n <= The(ffmpegRun[e]).frames_v
  /\ LET dir     == The(tempDir[e])
         written == {FrameFileName(k) : k \in 1..n}
         listed  == ListFrames(dir, written)
     IN /\ disk' = [disk EXCEPT ![dir].entries = written]
        /\ frames' = [frames EXCEPT ![e] = listed]
        /\ IF Len(listed) = 0
           THEN /\ pc' = [pc EXCEPT ![e] = "chat.update.noframes"]
                /\ Logged(e, <<En("ffmpeg", n, "ok"),
                               En("chat.update.noframes", 0, "call")>>)
           ELSE /\ pc' = [pc EXCEPT ![e] = "chat.update.extracted"]
                /\ Logged(e, <<En("ffmpeg", n, "ok"),
                               En("chat.update.extracted", Len(listed), "call")>>)
  /\ UNCHANGED <<pending, cleanups, downloadUrl, file, messageTs, statusMsg, tempDir, i,
                 ffmpegRun, dirsMade, messages, reactions, uploaded, requested, pvars>>

\* ffmpeg ends having written any number of frames up to the -frames:v it was
\* given
FfmpegEnds(e) ==
  /\ pc[e] = "ffmpeg"
  /\ \E n \in 0..The(ffmpegRun[e]).frames_v : FfmpegWrote(e, n)

\* chat.update('Could not extract frames from video.') throws
UpdateNoFramesFails(e) ==
  /\ pc[e] = "chat.update.noframes"
  /\ pc' = [pc EXCEPT ![e] = "done"]
  /\ Logged(e, <<En("chat.update.noframes", 0, "fail"), CatchEntry>>)
  /\ UNCHANGED <<pending, cleanups, locals, world, pvars>>

\* chat.update('Could not extract frames from video.') returns: cleanup, return
UpdateNoFramesReturns(e) ==
  /\ pc[e] = "chat.update.noframes"
  /\ messages' = Updated(The(statusMsg[e]), NoFramesText)
  /\ \E rmOk \in BOOLEAN :
       /\ cleanup(e, The(tempDir[e]), rmOk)
       /\ Logged(e, <<En("chat.update.noframes", 0, "ok")>> \o CleanupEntries(rmOk))
  /\ pc' = [pc EXCEPT ![e] = "done"]
  /\ UNCHANGED <<pending, locals, dirsMade, reactions, uploaded, requested, pvars>>

\* chat.update('Extracted N key frames ... Uploading...') throws
UpdateExtractedFails(e) ==
  /\ pc[e] = "chat.update.extracted"
  /\ pc' = [pc EXCEPT ![e] = "done"]
  /\ Logged(e, <<En("chat.update.extracted", Len(frames[e]), "fail"), CatchEntry>>)
  /\ UNCHANGED <<pending, cleanups, locals, world, pvars>>

\* LoopTest that leaves the loop one frame early
LoopTestOffByOne(e, idx, entries) ==
  /\ i' = [i EXCEPT ![e] = idx]
  /\ IF idx + 1 < Len(frames[e])
     THEN /\ pc' = [pc EXCEPT ![e] = "files.uploadV2"]
          /\ Logged(e, entries \o <<En("files.uploadV2", idx + 1, "call")>>)
     ELSE /\ pc' = [pc EXCEPT ![e] = "chat.update.complete"]
          /\ Logged(e, entries \o <<En("chat.update.complete", Len(frames[e]), "call")>>)

\* the test of the upload loop with i = idx: the next upload, or the final update
LoopTest(e, idx, entries) ==
  /\ i' = [i EXCEPT ![e] = idx]
  /\ IF idx < Len(frames[e])
     THEN /\ pc' = [pc EXCEPT ![e] = "files.uploadV2"]
          /\ Logged(e, entries \o <<En("files.uploadV2", idx + 1, "call")>>)
     ELSE /\ pc' = [pc EXCEPT ![e] = "chat.update.complete"]
          /\ Logged(e, entries \o <<En("chat.update.complete", Len(frames[e]), "call")>>)

\* chat.update('Extracted N key frames ... Uploading...') returns: the upload
\* loop starts with i = 0
UpdateExtractedReturns(e) ==
  /\ pc[e] = "chat.update.extracted"
  /\ messages' = Updated(The(statusMsg[e]),
                         ExtractedText(Len(frames[e]), OrEmpty(The(file[e]).name)))
  /\ LoopTest(e, 0, <<En("chat.update.extracted", Len(frames[e]), "ok")>>)
  /\ UNCHANGED <<pending, cleanups, downloadUrl, file, messageTs, statusMsg, tempDir, frames,
                 ffmpegRun, disk, dirsMade, reactions, uploaded, requested, pvars>>

\* files.uploadV2 throws
UploadFails(e) ==
  /\ pc[e] = "files.uploadV2"
  /\ pc' = [pc EXCEPT ![e] = "done"]
  /\ Logged(e, <<En("files.uploadV2", i[e] + 1, "fail"), CatchEntry>>)
  /\ UNCHANGED <<pending, cleanups, locals, world, pvars>>

\* files.uploadV2 returns: sleep(500)
UploadReturns(e) ==
  /\ pc[e] = "files.uploadV2"
  /\ uploaded' = Append(uploaded, UploadRequest(e, i[e]))
  /\ pc' = [pc EXCEPT ![e] = "sleep"]
  /\ Logged(e, <<En("files.uploadV2", i[e] + 1, "ok"),
                 En("sleep", UPLOAD_DELAY_MS, "call")>>)
  /\ UNCHANGED <<pending, cleanups, locals, disk, dirsMade, messages, reactions,
                 requested, pvars>>

\* the delay has elapsed: i++ and the loop test
SleepElapsed(e) ==
  /\ pc[e] = "sleep"
  /\ LoopTest(e, i[e] + 1, <<En("sleep", UPLOAD_DELAY_MS, "ok")>>)
  /\ UNCHANGED <<pending, cleanups, downloadUrl, file, messageTs, statusMsg, tempDir, frames,
                 ffmpegRun, world, pvars>>

\* the final chat.update throws
UpdateCompleteFails(e) ==
  /\ pc[e] = "chat.update.complete"
  /\ pc' = [pc EXCEPT ![e] = "done"]
  /\ Logged(e, <<En("chat.update.complete", Len(frames[e]), "fail"), CatchEntry>>)
  /\ UNCHANGED <<pending, cleanups, locals, world, pvars>>

\* the final chat.update returns: swap the reactions when there is a messageTs,
\* else cleanup and the handler ends
UpdateCompleteReturns(e) ==
  /\ pc[e] = "chat.update.complete"
  /\ messages' = Updated(The(statusMsg[e]),
                         CompleteText(Len(frames[e]), OrEmpty(The(file[e]).name)))
  /\ IF messageTs[e] # None
     THEN /\ pc' = [pc EXCEPT ![e] = "reactions.remove"]
          /\ Logged(e, <<En("chat.update.complete", Len(frames[e]), "ok"),
                         En("reactions.remove", 0, "call")>>)
          /\ UNCHANGED <<disk, cleanups>>
     ELSE /\ pc' = [pc EXCEPT ![e] = "done"]
          /\ \E rmOk \in BOOLEAN :
               /\ cleanup(e, The(tempDir[e]), rmOk)
               /\ Logged(e, <<En("chat.update.complete", Len(frames[e]), "ok")>>
                            \o CleanupEntries(rmOk))
  /\ UNCHANGED <<pending, locals, dirsMade, reactions, uploaded, requested, pvars>>

\* reactions.remove('hourglass_flowing_sand') settles; a failure is swallowed
ReactionRemoveSettles(e) ==
  /\ pc[e] = "reactions.remove"
  /\ \E ok \in BOOLEAN :
       /\ reactions' = IF ok
                       THEN reactions \ {<<The(messageTs[e]), "hourglass_flowing_sand">>}
                       ELSE reactions
       /\ Logged(e, <<En("reactions.remove", 0, IF ok THEN "ok" ELSE "fail"),
                      En("reactions.add", 1, "call")>>)
  /\ pc' = [pc EXCEPT ![e] = "reactions.add.complete"]
  /\ UNCHANGED <<pending, cleanups, locals, disk, dirsMade, messages, uploaded, requested, pvars>>

\* reactions.add('white_check_mark') settles; a failure is swallowed; cleanup
ReactionCompleteSettles(e) ==
  /\ pc[e] = "reactions.add.complete"
  /\ \E ok \in BOOLEAN, rmOk \in BOOLEAN :
       /\ reactions' = IF ok
                       THEN reactions \cup {<<The(messageTs[e]), "white_check_mark">>}
                       ELSE reactions
       /\ cleanup(e, The(tempDir[e]), rmOk)
       /\ Logged(e, <<En("reactions.add", 1, IF ok THEN "ok" ELSE "fail")>>
                    \o CleanupEntries(rmOk))
  /\ pc' = [pc EXCEPT ![e] = "done"]
  /\ UNCHANGED <<pending, locals, dirsMade, messages, uploaded, requested, pvars>>

Handler(e) ==
  \/ Deliver(e)
  \/ FilesInfoFails(e) \/ FilesInfoNoFile(e) \/ FilesInfoNotVideo(e) \/ FilesInfoVideo(e)
  \/ ReactionAddSettles(e)
  \/ PostMessageFails(e) \/ PostMessageNoUrl(e) \/ PostMessageMkdtempFails(e)
  \/ PostMessageDownload(e)
  \/ UpdateNoUrlSettles(e)
  \/ AxiosFails(e) \/ AxiosReturns(e)
  \/ WriterError(e) \/ ResponseInterrupted(e) \/ WriterFinish(e)
  \/ FfprobeFails(e) \/ FfprobeReturns(e)
  \/ FfmpegFails(e) \/ FfmpegEnds(e)
  \/ UpdateNoFramesFails(e) \/ UpdateNoFramesReturns(e)
  \/ UpdateExtractedFails(e) \/ UpdateExtractedReturns(e)
  \/ UploadFails(e) \/ UploadReturns(e) \/ SleepElapsed(e)
  \/ UpdateCompleteFails(e) \/ UpdateCompleteReturns(e)
  \/ ReactionRemoveSettles(e) \/ ReactionCompleteSettles(e)

Next == \E e \in EventIds : Handler(e)

Spec == Init /\ [][Next]_vars

(***************************************************************************)
(* The interval computation of extractFrames on its own: Init draws the    *)
(* probed duration, the requested interval and the cap.                    *)
(***************************************************************************)
IntervalCalls ==
  [ fn : {"actualInterval"},
    probed : {None} \cup {Some(d) : d \in 0..(MaxDuration * DurationResolution)}
                    \cup {Some(600 * DurationResolution)},
    interval : 1..MaxInterval,
    maxFrames : 1..MaxCap ]

InitInterval ==
  /\ pending = {}
  /\ HandlerInit
  /\ call \in IntervalCalls
  /\ ret = None

ComputeInterval ==
  /\ call.fn = "actualInterval"
  /\ ret = None
  /\ ret' = Some(actualInterval(call.probed, call.interval, call.maxFrames))
  /\ UNCHANGED <<call, hvars>>

SpecInterval == InitInterval /\ [][ComputeInterval]_vars

(***************************************************************************)
(* The video test on its own: Init draws the name and the MIME type.       *)
(***************************************************************************)
\* String.prototype.toUpperCase, to write the names in other letter cases
ToUpperChar(c) ==
  IF \E k \in 1..Len(LowerChars) : LowerChars[k] = c
  THEN UpperChars[CHOOSE k \in 1..Len(LowerChars) : LowerChars[k] = c]
  ELSE c

toUpperCase(s) == [k \in 1..Len(s) |-> ToUpperChar(s[k])]

\* only the first letter after the dot in upper case
Capitalised(s) == [k \in 1..Len(s) |-> IF k = 2 THEN ToUpperChar(s[k]) ELSE s[k]]

NameStems ==
  { <<>>, <<"c">>, <<".">>, <<"c", ".">>, <<"d", "/">>, <<"c", ".", "d", "/">>,
    <<"c", ".", "m", "p", "4", "/">> }

NameEndings ==
  LET exts == {VIDEO_EXTENSIONS[k] : k \in 1..Len(VIDEO_EXTENSIONS)}
  IN exts \cup {toUpperCase(x) : x \in exts} \cup {Capitalised(x) : x \in exts}
          \cup {Tail(x) : x \in exts}
          \cup { <<>>, <<".", "t", "x", "t">>, <<".", "m", "p">>, <<".", "m", "p", "3">> }

NameTails == { <<>>, <<"/">>, <<".">>, <<"x">>, <<"/", "c">> }

ClassifyNames ==
  {None} \cup {Some(stem \o ending \o tail) :
                 stem \in NameStems, ending \in NameEndings, tail \in NameTails}

ClassifyMimes ==
  { None,
    Some(<<"v","i","d","e","o","/","m","p","4">>),
    Some(<<"v","i","d","e","o","/">>),
    Some(<<"v","i","d","e","o">>),
    Some(<<"V","i","d","e","o","/","m","p","4">>),
    Some(<<"x","v","i","d","e","o","/">>),
    Some(<<"t","e","x","t","/","x">>) }

ClassifyCalls == [ fn : {"isVideo"}, name : ClassifyNames, mimetype : ClassifyMimes ]

InitClassify ==
  /\ pending = {}
  /\ HandlerInit
  /\ call \in ClassifyCalls
  /\ ret = None

Classify ==
  /\ call.fn = "isVideo"
  /\ ret = None
  /\ ret' = Some(isVideo(call))
  /\ UNCHANGED <<call, hvars>>

SpecClassify == InitClassify /\ [][Classify]_vars

(***************************************************************************)
(* formatTimestamp on its own: Init draws the offset in whole seconds.     *)
(***************************************************************************)
MaxSeconds == 700

TimestampCalls == [ fn : {"formatTimestamp"}, seconds : 0..MaxSeconds ]

InitTimestamp ==
  /\ pending = {}
  /\ HandlerInit
  /\ call \in TimestampCalls
  /\ ret = None

ComputeTimestamp ==
  /\ call.fn = "formatTimestamp"
  /\ ret = None
  /\ ret' = Some(formatTimestamp(call.seconds))
  /\ UNCHANGED <<call, hvars>>

SpecTimestamp == InitTimestamp /\ [][ComputeTimestamp]_vars

(***************************************************************************)
(* Two events delivered to the same process: their handlers interleave at  *)
(* every await. The files, the probe and the number of frames are drawn    *)
(* from smaller sets than in Spec.                                         *)
(***************************************************************************)
MaxConcurrentFrames == 2

ConcurrentFiles ==
  { f \in FileCatalog :
      /\ f.name \in {Some(<<"c",".","M","P","4">>), Some(<<"n",".","t","x","t">>)}
      /\ f.mimetype = None
      /\ f.url_private = None
      /\ f.shares \in {None, Some([public |-> Some(SharesHere), private |-> None])} }

InConcurrentScope ==
  \A e \in EventIds :
    /\ file[e] # None => The(file[e]) \in ConcurrentFiles
    /\ ffmpegRun[e] # None => The(ffmpegRun[e]).probed = Some(30 * DurationResolution)
    /\ Len(frames[e]) <= MaxConcurrentFrames

InitConcurrent ==
  /\ pending = EventIds
  /\ HandlerInit
  /\ call = NoCall
  /\ ret = None

HandlerConcurrent(e) ==
  \/ Deliver(e)
  \/ FilesInfoFails(e) \/ FilesInfoNoFile(e)
  \/ FilesInfoNotVideo(e) /\ InConcurrentScope'
  \/ FilesInfoVideo(e) /\ InConcurrentScope'
  \/ ReactionAddSettles(e)
  \/ PostMessageFails(e) \/ PostMessageNoUrl(e) \/ PostMessageMkdtempFails(e)
  \/ PostMessageDownload(e)
  \/ UpdateNoUrlSettles(e)
  \/ AxiosFails(e) \/ AxiosReturns(e)
  \/ WriterError(e) \/ ResponseInterrupted(e) \/ WriterFinish(e)
  \/ FfprobeFails(e)
  \/ FfprobeReturns(e) /\ InConcurrentScope'
  \/ FfmpegFails(e)
  \/ \E n \in 0..MaxConcurrentFrames : FfmpegWrote(e, n)
  \/ UpdateNoFramesFails(e) \/ UpdateNoFramesReturns(e)
  \/ UpdateExtractedFails(e) \/ UpdateExtractedReturns(e)
  \/ UploadFails(e) \/ UploadReturns(e) \/ SleepElapsed(e)
  \/ UpdateCompleteFails(e) \/ UpdateCompleteReturns(e)
  \/ ReactionRemoveSettles(e) \/ ReactionCompleteSettles(e)

NextConcurrent == \E e \in EventIds : HandlerConcurrent(e)

SpecConcurrent == InitConcurrent /\ [][NextConcurrent]_vars

(***************************************************************************)
(* The health server: createServer's request listener, and requests that   *)
(* arrive while an event is being handled.                                 *)
(***************************************************************************)
HealthUrl == <<"/","h","e","a","l","t","h">>

\* JSON.stringify({ status: 'ok', service: 'spartan-video-extractor' }), as
\* the members in the order they are written
HealthBody == << <<"status", "ok">>, <<"service", "spartan-video-extractor">> >>

\* the listener with a test of the method added: only GET /health is answered 200
serverResponseGetOnly(req) ==
  IF req.method = "GET" /\ req.url = HealthUrl
  THEN [status |-> 200, contentType |-> Some("application/json"), json |-> Some(HealthBody),
        text |-> None]
  ELSE [status |-> 404, contentType |-> None, json |-> None, text |-> Some("Not Found")]

\* the request listener: what it writes for a request
serverResponse(req) ==
  IF req.url = HealthUrl
  THEN [status |-> 200, contentType |-> Some("application/json"), json |-> Some(HealthBody),
        text |-> None]
  ELSE [status |-> 404, contentType |-> None, json |-> None, text |-> Some("Not Found")]

\* request methods and request targets (req.url: the path with its query string)
HealthMethods == {"GET", "HEAD", "POST", "DELETE"}

HealthUrls ==
  { HealthUrl,
    <<"/">>,
    <<"/","h","e","a","l","t","h","/">>,
    <<"/","h","e","a","l","t","h","z">>,
    <<"/","H","e","a","l","t","h">>,
    <<"/","h","e","a","l","t","h","?","v","=","1">>,
    <<"/","m","e","t","r","i","c","s">> }

HealthRequests == [ fn : {"server"}, method : HealthMethods, url : HealthUrls ]

InitHealth ==
  /\ pending = {1}
  /\ HandlerInit
  /\ call = NoCall
  /\ ret = None

\* a request arrives
HealthRequest ==
  /\ call = NoCall
  /\ call' \in HealthRequests
  /\ ret' = None
  /\ UNCHANGED hvars

\* the listener answers it
HealthRespond ==
  /\ call.fn = "server"
  /\ ret = None
  /\ ret' = Some(serverResponse(call))
  /\ UNCHANGED <<call, hvars>>

\* the exchange is over
HealthClose ==
  /\ call.fn = "server"
  /\ ret # None
  /\ call' = NoCall
  /\ ret' = None
  /\ UNCHANGED hvars

NextHealth ==
  \/ HealthRequest
  \/ HealthRespond
  \/ HealthClose
  \/ \E e \in EventIds : HandlerConcurrent(e)

SpecHealth == InitHealth /\ [][NextHealth]_vars

(***************************************************************************)
(* Properties.                                                             *)
(***************************************************************************)
\* the handler of e has ended (returned, or left through the outer catch)
Ended(e) == pc[e] = "done"

\* the handler of e got past the video test
Accepted(e) == \E k \in 1..Len(log[e]) : log[e][k].op \in {"reactions.add", "chat.postMessage"}

\* C1: every handler that has ended and had made a Workspace has removed it.
C1_WorkspaceRemovedWhenEnded ==
  \A e \in EventIds :
    (Ended(e) /\ tempDir[e] # None) => The(tempDir[e]) \notin DOMAIN disk

\* C2: for D >= 0, I > 0, M > 0 the interval extractFrames computes satisfies
\* floor(D / effective) <= M.
C2_EffectiveIntervalRespectsCap ==
  (call.fn = "actualInterval" /\ ret # None) =>
    /\ The(ret) > 0
    /\ FloorDiv(DurationOrZero(call.probed), The(ret)) <= call.maxFrames

\* C3: the interval extractFrames computes is never narrower than the requested
\* one, equals it exactly when floor(D / I) <= M, and equals it for D = 0.
C3_WidenedExactlyWhenOverCap ==
  (call.fn = "actualInterval" /\ ret # None) =>
    LET D == DurationOrZero(call.probed)
    IN /\ The(ret) >= call.interval
       /\ (The(ret) = call.interval) <=> (FloorDiv(D, call.interval) <= call.maxFrames)
       /\ D = 0 => The(ret) = call.interval

\* the calls whose failure is a transfer error or a sampling error
TransferOrSamplingOps ==
  {"axios", "writer", "ffprobe", "ffmpeg", "files.uploadV2", "chat.update.nourl",
   "chat.update.noframes", "chat.update.extracted", "chat.update.complete"}

\* C4: once the Status Message is posted, a transfer or sampling error makes the
\* handler set it to a terminal error text before it ends, and runs no later step.
C4_ErrorSurfacedInStatus ==
  \A e \in EventIds :
    \A k \in 1..Len(log[e]) :
      (/\ Ended(e)
       /\ statusMsg[e] # None
       /\ log[e][k].ev = "fail"
       /\ log[e][k].op \in TransferOrSamplingOps)
      => /\ messages[The(statusMsg[e])].text.icon = "cross_mark"
         /\ \A j \in (k + 1)..Len(log[e]) : log[e][j].ev # "call" \/ log[e][j] = CatchEntry

\* C5: a handler that accepted a video and has ended has called cleanup exactly once.
C5_CleanupExactlyOnce ==
  \A e \in EventIds : (Ended(e) /\ Accepted(e)) => cleanups[e] = 1

\* the allowlist as the specification writes it
AllowlistedExtensions ==
  { <<"m","p","4">>, <<"m","o","v">>, <<"a","v","i">>, <<"m","k","v">>,
    <<"w","e","b","m">>, <<"m","4","v">>, <<"w","m","v">>, <<"f","l","v">> }

\* the name without the separators that end it
RECURSIVE WithoutTrailingSeparators(_)
WithoutTrailingSeparators(p) ==
  IF Len(p) > 0 /\ p[Len(p)] = "/"
  THEN WithoutTrailingSeparators(SubSeq(p, 1, Len(p) - 1))
  ELSE p

\* the name ends, after a non-empty stem, in "." and an allowlisted extension
\* in any letter case
HasAllowlistedExtension(name) ==
  LET q == WithoutTrailingSeparators(name)
  IN \E x \in AllowlistedExtensions :
       LET dot == Len(q) - Len(x)
       IN /\ dot >= 2
          /\ q[dot] = "."
          /\ q[dot - 1] # "/"
          /\ \A k \in 1..Len(x) : ToLowerChar(q[dot + k]) = x[k]

\* the MIME type begins with "video/"
HasVideoMime(mime) ==
  /\ Len(mime) >= 6
  /\ SubSeq(mime, 1, 6) = <<"v","i","d","e","o","/">>

\* a file descriptor is a video by the rule of the specification
VideoByRule(f) ==
  HasAllowlistedExtension(OrEmpty(f.name)) \/ HasVideoMime(OrEmpty(f.mimetype))

\* C6: a file is classified as a video exactly when its name has an allowlisted
\* extension (in any letter case) or its MIME type starts with "video/".
C6_VideoIffExtensionOrMime ==
  (call.fn = "isVideo" /\ ret # None) =>
    /\ The(ret) <=> VideoByRule(call)
    /\ HasAllowlistedExtension(OrEmpty(call.name)) => The(ret)
    /\ HasVideoMime(OrEmpty(call.mimetype)) => The(ret)

\* C6 witness: an upper-case allowlisted extension with a non-video MIME type is
\* classified as a video.
C6_Witness ==
  /\ call.fn = "isVideo"
  /\ ret = Some(TRUE)
  /\ call.name = Some(<<"c", ".", "M", "P", "4">>)
  /\ call.mimetype = Some(<<"t","e","x","t","/","x">>)

\* what the handler of e did besides fetching the metadata and logging
EffectsOf(e) ==
  {k \in 1..Len(log[e]) : log[e][k].op \notin {"files.info", "console.error"}}

\* C7: a handler whose file could not be resolved, or is not a video, ends with
\* no reaction, no Status Message, no Workspace, no download and no upload.
C7_SilentAbort ==
  \A e \in EventIds :
    (/\ pc[e] \notin {"idle", "files.info"}
     /\ (file[e] = None \/ ~VideoByRule(The(file[e]))))
    => /\ Ended(e)
       /\ EffectsOf(e) = {}
       /\ statusMsg[e] = None /\ tempDir[e] = None /\ messageTs[e] = None
       /\ \A m \in 1..Len(messages) : messages[m].by # e
       /\ \A d \in DOMAIN disk : disk[d].owner # e
       /\ \A u \in 1..Len(uploaded) : uploaded[u].by # e

\* C7 witness: the handler ended on a resolved file that is not a video.
C7_Witness ==
  /\ Ended(1)
  /\ file[1] # None
  /\ ~VideoByRule(The(file[1]))

\* the uploads made by the handler of e, in order
UploadsOf(e) == SelectSeq(uploaded, LAMBDA u : u.by = e)

\* the handler of e has left the upload loop by its test
LoopLeft(e) == \E k \in 1..Len(log[e]) : log[e][k].op = "chat.update.complete"

\* C8: the frames are uploaded one at a time in ascending file order: upload k+1
\* is called only after upload k returned and the 500 ms delay elapsed, upload k
\* carries the k-th frame file and is captioned k/N.
C8_SequentialOrderedUploads ==
  \A e \in EventIds :
    LET N == Len(frames[e])
        L == log[e]
        calls == {p \in 1..Len(L) : L[p].op = "files.uploadV2" /\ L[p].ev = "call"}
        ups == UploadsOf(e)
    IN /\ \A p \in calls :
            /\ L[p].k \in 1..N
            /\ L[p].k = 1 => L[p - 1] = En("chat.update.extracted", N, "ok")
            /\ L[p].k > 1 =>
                 /\ L[p - 1] = En("sleep", 500, "ok")
                 /\ L[p - 2] = En("sleep", 500, "call")
                 /\ L[p - 3] = En("files.uploadV2", L[p].k - 1, "ok")
            /\ p < Len(L) => /\ L[p + 1].op = "files.uploadV2"
                             /\ L[p + 1].k = L[p].k
                             /\ L[p + 1].ev \in {"ok", "fail"}
       /\ \A p \in calls, q \in calls : p < q => L[p].k < L[q].k
       /\ Len(ups) <= N
       /\ \A k \in 1..Len(ups) :
            /\ ups[k].file = frames[e][k]
            /\ ups[k].file.name = FrameFileName(k)
            /\ ups[k].comment.position = k /\ ups[k].comment.total = N
            /\ ups[k].filename.position = k /\ ups[k].filename.total = N
       /\ LoopLeft(e) => Len(ups) = N

\* C8 witness: a handler has uploaded all of its three frames and left the loop.
C8_Witness ==
  /\ Len(frames[1]) = 3
  /\ Len(UploadsOf(1)) = 3
  /\ LoopLeft(1)

\* the value of a character that is a decimal digit
DigitValue(c) == (CHOOSE k \in 1..Len(DigitChars) : DigitChars[k] = c) - 1

RECURSIVE DecimalValue(_)
\* the number a sequence of decimal digits writes
DecimalValue(ds) ==
  IF ds = <<>> THEN 0
  ELSE 10 * DecimalValue(SubSeq(ds, 1, Len(ds) - 1)) + DigitValue(ds[Len(ds)])

\* the offset in seconds that a text "m:ss" shows
ShownSeconds(t) ==
  LET colon == CHOOSE k \in 1..Len(t) : t[k] = ":"
  IN 60 * DecimalValue(SubSeq(t, 1, colon - 1))
     + DecimalValue(SubSeq(t, colon + 1, Len(t)))

\* C9 as stated: the frame at 1-based index k is captioned with the offset
\* k * FRAME_INTERVAL.
C9_CaptionIsIndexTimesInterval ==
  \A u \in 1..Len(uploaded) :
    ShownSeconds(uploaded[u].comment.timestamp)
      = uploaded[u].comment.position * FRAME_INTERVAL

\* C9 amended: the frame at 1-based index k is captioned with the offset
\* (k - 1) * FRAME_INTERVAL, the requested interval, also when the interval
\* given to the sampler was widened.
C9_CaptionIsPrecedingIndexTimesInterval ==
  \A u \in 1..Len(uploaded) :
    LET k == uploaded[u].comment.position
        effective == The(ffmpegRun[uploaded[u].by]).interval
    IN /\ ShownSeconds(uploaded[u].comment.timestamp) = (k - 1) * FRAME_INTERVAL
       /\ (k > 1 /\ effective # FRAME_INTERVAL) =>
            ShownSeconds(uploaded[u].comment.timestamp) # (k - 1) * effective

\* C9 witness: a second frame was uploaded by a handler whose sampling interval
\* was widened.
C9_Witness ==
  \E u \in 1..Len(uploaded) :
    /\ uploaded[u].comment.position = 2
    /\ The(ffmpegRun[uploaded[u].by]).interval > FRAME_INTERVAL

ScenarioATimestamps ==
  << <<"0",":","0","0">>, <<"0",":","0","3">>, <<"0",":","0","6">>,
     <<"0",":","0","9">>, <<"0",":","1","2">>, <<"0",":","1","5">>,
     <<"0",":","1","8">>, <<"0",":","2","1">>, <<"0",":","2","4">>,
     <<"0",":","2","7">> >>

\* C10: for a 30 s video (interval 3, cap 10) the interval is not widened, and
\* when the sampler yields 10 frames the handler uploads 10 frames captioned
\* 0:00, 0:03, ..., 0:27 in upload order; the frame at position k is captioned
\* formatTimestamp((k - 1) * FRAME_INTERVAL).
C10_ScenarioA ==
  \A e \in EventIds :
    LET ups == UploadsOf(e)
    IN /\ \A k \in 1..Len(ups) :
            ups[k].comment.timestamp = formatTimestamp((k - 1) * FRAME_INTERVAL)
       /\ (/\ ffmpegRun[e] # None
           /\ The(ffmpegRun[e]).probed = Some(30 * DurationResolution))
          => /\ The(ffmpegRun[e]).interval = 3
             /\ Len(frames[e]) = 10 =>
                  /\ \A k \in 1..Len(ups) : ups[k].comment.timestamp = ScenarioATimestamps[k]
                  /\ LoopLeft(e) => Len(ups) = 10

\* C10 witness: the ten frames of a 30 s video have been uploaded.
C10_Witness ==
  /\ ffmpegRun[1] # None
  /\ The(ffmpegRun[1]).probed = Some(30 * DurationResolution)
  /\ Len(frames[1]) = 10
  /\ Len(UploadsOf(1)) = 10
  /\ LoopLeft(1)


\* the words of `phrase` appear in `words`, adjacent and in order
ContainsPhrase(words, phrase) ==
  \E k \in 0..(Len(words) - Len(phrase)) :
    \A j \in 1..Len(phrase) : words[k + j] = phrase[j]

\* the sampler of e completed and returned no frame
SampledNothing(e) ==
  \E k \in 1..Len(log[e]) : log[e][k] = En("chat.update.noframes", 0, "call")

\* C11: a handler whose sampler returned zero frames ends with the Status
\* Message containing "Could not extract frames from video.", no upload, no
\* success text, no 'complete' reaction attempted, and its Workspace removed.
C11_ZeroFramesEndsInError ==
  \A e \in EventIds :
    (Ended(e) /\ SampledNothing(e)) =>
      /\ ContainsPhrase(messages[The(statusMsg[e])].text.words,
                        <<"Could", "not", "extract", "frames", "from", "video.">>)
      /\ messages[The(statusMsg[e])].text.icon # "check_mark"
      /\ \A u \in 1..Len(uploaded) : uploaded[u].by # e
      /\ \A k \in 1..Len(log[e]) : log[e][k].op # "files.uploadV2"
      /\ \A k \in 1..Len(log[e]) : log[e][k] # En("reactions.add", 1, "call")
      /\ The(tempDir[e]) \notin DOMAIN disk

\* the file descriptor carries neither url_private_download nor url_private
NoLocator(f) == f.url_private_download = None /\ f.url_private = None

\* the entries the handler of e logged after its Status Message was posted
AfterPost(e) ==
  LET posted == CHOOSE k \in 1..Len(log[e]) : log[e][k] = En("chat.postMessage", 0, "ok")
  IN SubSeq(log[e], posted + 1, Len(log[e]))

\* the handler of e neither made a Workspace nor requested, sampled or uploaded
NothingAttempted(e) ==
  /\ tempDir[e] = None
  /\ \A r \in 1..Len(requested) : requested[r].by # e
  /\ \A u \in 1..Len(uploaded) : uploaded[u].by # e
  /\ \A k \in 1..Len(log[e]) :
       log[e][k].op \notin {"fs.mkdtempSync", "axios", "writer", "ffprobe", "ffmpeg",
                            "files.uploadV2"}

\* every download requested is for the authenticated download URL when the
\* descriptor has one
DownloadUrlPreferred ==
  \A r \in 1..Len(requested) :
    LET f == The(file[requested[r].by])
    IN f.url_private_download # None => requested[r].url = Some(DownloadUrl)

StepKey(en) ==
  IF en.op = "reactions.add" /\ en.k = 1 THEN "reactions.add.complete" ELSE en.op

\* the steps in the order of the handler's text
CodeOrder ==
  << {"files.info"}, {"reactions.add"}, {"chat.postMessage"},
     {"chat.update.nourl"},
     {"fs.mkdtempSync"}, {"fs.mkdirSync"},
     {"axios"}, {"writer", "response"},
     {"ffprobe"}, {"ffmpeg"}, {"chat.update.noframes", "chat.update.extracted"},
     {"files.uploadV2", "sleep"}, {"chat.update.complete"},
     {"reactions.remove"}, {"reactions.add.complete"},
     {"cleanup", "fs.rmSync"}, {"console.error"} >>

\* the steps in the order of the specification: the Workspace is acquired
\* (step 3) before the download locator is resolved (step 4)
SpecOrder ==
  << {"files.info"}, {"reactions.add"}, {"chat.postMessage"},
     {"fs.mkdtempSync"}, {"fs.mkdirSync"},
     {"chat.update.nourl"},
     {"axios"}, {"writer", "response"},
     {"ffprobe"}, {"ffmpeg"}, {"chat.update.noframes", "chat.update.extracted"},
     {"files.uploadV2", "sleep"}, {"chat.update.complete"},
     {"reactions.remove"}, {"reactions.add.complete"},
     {"cleanup", "fs.rmSync"}, {"console.error"} >>

StepIn(order, en) == CHOOSE r \in 1..Len(order) : StepKey(en) \in order[r]

\* the log of e never goes back to an earlier step of `order`
FollowsOrder(order, e) ==
  \A k \in 1..(Len(log[e]) - 1) : StepIn(order, log[e][k]) <= StepIn(order, log[e][k + 1])

\* a call of e is settled before anything else is started: the entry after a
\* call is the result of that call (for cleanup, of its rmSync; for the writer,
\* also the break of the response it is fed from)
CallsSettleFirst(e) ==
  \A k \in 1..(Len(log[e]) - 1) :
    log[e][k].ev = "call" =>
      /\ log[e][k + 1].ev \in {"ok", "fail"}
      /\ StepIn(CodeOrder, log[e][k + 1]) = StepIn(CodeOrder, log[e][k])

\* a step is started only when the one before it has completed
StartsAfterCompletion(e) ==
  \A k \in 2..Len(log[e]) :
    (log[e][k].ev = "call" /\ log[e][k] # CatchEntry) =>
      \/ log[e][k - 1].ev = "ok"
      \/ log[e][k - 1].ev = "fail" /\ log[e][k - 1].op \in {"reactions.add", "reactions.remove"}

\* C13 as stated: the steps of one event follow the order of the specification,
\* the Workspace being acquired before the download locator is checked, and no
\* step starts before the one before it has completed.
C13_StepsInSpecifiedOrder ==
  \A e \in EventIds :
    /\ FollowsOrder(SpecOrder, e)
    /\ CallsSettleFirst(e)
    /\ StartsAfterCompletion(e)
    /\ \A k \in 1..Len(log[e]) :
         log[e][k].op \in {"chat.update.nourl", "axios"} =>
           \E j \in 1..(k - 1) : log[e][j] = En("fs.mkdtempSync", 0, "ok")

\* C13 amended: the steps follow the order resolve and filter, reaction, Status
\* Message post, download-locator check, Workspace, download, sample, interim
\* update, uploads, success update, reaction swap, cleanup; the locator is
\* checked before the Workspace is acquired, so a handler without a locator
\* never makes one; and no step starts before the one before it has completed.
C13_StepsInCodeOrder ==
  \A e \in EventIds :
    /\ FollowsOrder(CodeOrder, e)
    /\ CallsSettleFirst(e)
    /\ StartsAfterCompletion(e)
    /\ \A k \in 1..Len(log[e]) :
         /\ log[e][k].op = "fs.mkdtempSync" => downloadUrl[e] # None
         /\ log[e][k].op = "chat.update.nourl" =>
              /\ tempDir[e] = None
              /\ \A j \in 1..Len(log[e]) : log[e][j].op # "fs.mkdtempSync"
         /\ log[e][k].op = "axios" =>
              \E j \in 1..(k - 1) : log[e][j] = En("fs.mkdirSync", 0, "ok")

\* C13 witness: a handler has gone through every step, from the 'processing'
\* reaction to the cleanup after the reaction swap, with two uploads.
C13_Witness ==
  \E e \in EventIds :
    /\ Ended(e)
    /\ Len(UploadsOf(e)) = 2
    /\ log[e][3] = En("reactions.add", 0, "call")
    /\ \E k \in 1..Len(log[e]) : log[e][k] = En("reactions.add", 1, "ok")
    /\ log[e][Len(log[e])] = En("fs.rmSync", 0, "ok")

\* the handler of e has been invoked and has neither ended nor stalled
Running(e) == pc[e] \notin {"idle", "done", "stalled"}

\* a step of the handler of e that neither throws into the outer catch nor stalls
Advance(e) ==
  /\ Handler(e)
  /\ log'[e][Len(log'[e])] # CatchEntry
  /\ pc'[e] # "stalled"

\* what belongs to the invocation for e: its position and locals, the
\* directories it made, the messages it posted, its requests and its uploads
OwnedDirs(e) == {d \in DOMAIN disk : disk[d].owner = e}
OwnedMessages(e) == {m \in 1..Len(messages) : messages[m].by = e}
RequestsOf(e) == SelectSeq(requested, LAMBDA r : r.by = e)

\* the two invocations have their own Workspace and Status Message, and each
\* refers only to its own
Isolated ==
  /\ \A e1, e2 \in EventIds :
       e1 # e2 =>
         /\ tempDir[e1] # None => tempDir[e1] # tempDir[e2]
         /\ statusMsg[e1] # None => statusMsg[e1] # statusMsg[e2]
  /\ \A e \in EventIds :
       /\ OwnedDirs(e) \subseteq tempDir[e]
       /\ OwnedMessages(e) \subseteq statusMsg[e]
       /\ \A k \in 1..Len(frames[e]) : frames[e][k].dir = The(tempDir[e])
       /\ \A u \in 1..Len(uploaded) :
            uploaded[u].by = e => uploaded[u].file.dir = The(tempDir[e])
       /\ Running(e) => ENABLED Advance(e)

\* a step that is not a step of the handler of e leaves everything of e as it is
StepsStayPrivate ==
  \A e \in EventIds :
    log'[e] = log[e] =>
      /\ pc'[e] = pc[e]
      /\ cleanups'[e] = cleanups[e]
      /\ <<file[e], downloadUrl[e], messageTs[e], statusMsg[e], tempDir[e], frames[e],
           i[e], ffmpegRun[e]>>'
         = <<file[e], downloadUrl[e], messageTs[e], statusMsg[e], tempDir[e], frames[e],
             i[e], ffmpegRun[e]>>
      /\ \A d \in OwnedDirs(e) : d \in DOMAIN disk' /\ disk'[d] = disk[d]
      /\ \A m \in OwnedMessages(e) : messages'[m] = messages[m]
      /\ RequestsOf(e)' = RequestsOf(e)
      /\ UploadsOf(e)' = UploadsOf(e)

ReactionOps == {"reactions.add", "reactions.remove"}
ReactionPcs == {"reactions.add", "reactions.remove", "reactions.add.complete"}

\* what the handler does next when a reaction call has settled, whichever way
AfterReaction(en) ==
  CASE en.op = "reactions.add" /\ en.k = 0 -> En("chat.postMessage", 0, "call")
    [] en.op = "reactions.remove"          -> En("reactions.add", 1, "call")
    [] en.op = "reactions.add" /\ en.k = 1 -> En("cleanup", 0, "call")

PcAfterReaction(p) ==
  CASE p = "reactions.add"          -> "chat.postMessage"
    [] p = "reactions.remove"       -> "reactions.add.complete"
    [] p = "reactions.add.complete" -> "done"

\* the awaited reaction call of e settles as ev ("ok" or "fail")
ReactionSettlesAs(e, ev) ==
  /\ Handler(e)
  /\ log'[e][Len(log[e]) + 1].op \in ReactionOps
  /\ log'[e][Len(log[e]) + 1].ev = ev

\* a reaction is attempted only with a messageTs; a settled reaction call is
\* followed by the same next step whether it succeeded or failed; and while one
\* is awaited both outcomes can happen
ReactionsSwallowed ==
  \A e \in EventIds :
    /\ \A k \in 1..Len(log[e]) :
         log[e][k].op \in ReactionOps =>
           /\ messageTs[e] # None
           /\ log[e][k].ev \in {"ok", "fail"} =>
                /\ k < Len(log[e])
                /\ log[e][k + 1] = AfterReaction(log[e][k])
    /\ pc[e] \in ReactionPcs =>
         /\ ENABLED ReactionSettlesAs(e, "ok")
         /\ ENABLED ReactionSettlesAs(e, "fail")

\* the step that settles a reaction call changes, besides the reactions, only
\* what its success changes: the position moves on to the same next step, and
\* only the last of the three is followed by the cleanup
ReactionStepsAlike ==
  \A e \in EventIds :
    (pc[e] \in ReactionPcs /\ log'[e] # log[e]) =>
      /\ pc'[e] = PcAfterReaction(pc[e])
      /\ UNCHANGED <<locals, dirsMade, messages, uploaded, requested>>
      /\ IF pc[e] = "reactions.add.complete"
         THEN cleanups'[e] = cleanups[e] + 1
         ELSE UNCHANGED <<disk, cleanups>>

\* C15: a failure of a best-effort reaction call never interrupts the flow: the
\* handler goes on to the same next step, with the same status updates,
\* requests, uploads and cleanup, as when the call succeeds; and a reaction is
\* attempted only when a thread-position reference was resolved.
C15_ReactionFailuresSwallowed == []ReactionsSwallowed /\ [][ReactionStepsAlike]_vars

\* C15 witness: all three reaction calls of a handler failed, and it has ended
\* with the success text, its uploads made and its Workspace removed.
C15_Witness ==
  \E e \in EventIds :
    /\ Ended(e)
    /\ \E k \in 1..Len(log[e]) : log[e][k] = En("reactions.add", 0, "fail")
    /\ \E k \in 1..Len(log[e]) : log[e][k] = En("reactions.remove", 0, "fail")
    /\ \E k \in 1..Len(log[e]) : log[e][k] = En("reactions.add", 1, "fail")
    /\ messages[The(statusMsg[e])].text.icon = "check_mark"
    /\ Len(UploadsOf(e)) >= 1
    /\ The(tempDir[e]) \notin DOMAIN disk

\* the ways a download fails: the request is rejected, the response stream
\* breaks off, the writer reports an error
DownloadFailures == {En("axios", 0, "fail"), En("response", 0, "fail"), En("writer", 0, "fail")}

\* C16: a download whose request fails or whose response stream is interrupted
\* ends the download step with an error: the handler has ended through the
\* outer catch without sampling; and an invocation that has not ended always
\* has a next step, so it never waits forever.
C16_DownloadFailureEndsHandler ==
  \A e \in EventIds :
    /\ pc[e] \notin {"idle", "done"} => ENABLED Handler(e)
    /\ (\E k \in 1..Len(log[e]) : log[e][k] \in DownloadFailures) =>
         /\ Ended(e)
         /\ log[e][Len(log[e])] = CatchEntry
         /\ \A k \in 1..Len(log[e]) : log[e][k].op \notin {"ffprobe", "ffmpeg"}

\* t is a decimal numeral: digits only, and no leading zero unless it is "0"
IsNumeral(t) ==
  /\ Len(t) >= 1
  /\ \A k \in 1..Len(t) : \E d \in 1..Len(DigitChars) : DigitChars[d] = t[k]
  /\ Len(t) > 1 => t[1] # "0"

\* C17: for a whole-second offset s >= 0 formatTimestamp returns "<m>:<ss>":
\* one colon, before it the numeral of m = floor(s / 60), after it exactly two
\* digits that write ss = s mod 60, so that 60 * m + ss = s and 0 <= ss <= 59;
\* 0 gives "0:00", 65 gives "1:05" and 125 gives "2:05".
C17_TimestampIsMinutesColonTwoDigits ==
  (call.fn = "formatTimestamp" /\ ret # None) =>
    LET t     == The(ret)
        s     == call.seconds
        colon == CHOOSE k \in 1..Len(t) : t[k] = ":"
        m     == SubSeq(t, 1, colon - 1)
        ss    == SubSeq(t, colon + 1, Len(t))
    IN /\ Cardinality({k \in 1..Len(t) : t[k] = ":"}) = 1
       /\ IsNumeral(m)
       /\ DecimalValue(m) = s \div 60
       /\ Len(ss) = 2
       /\ \A k \in 1..2 : \E d \in 1..Len(DigitChars) : DigitChars[d] = ss[k]
       /\ DecimalValue(ss) = s % 60
       /\ 60 * DecimalValue(m) + DecimalValue(ss) = s
       /\ DecimalValue(ss) >= 0 /\ DecimalValue(ss) <= 59
       /\ s = 0 => t = <<"0", ":", "0", "0">>
       /\ s = 65 => t = <<"1", ":", "0", "5">>
       /\ s = 125 => t = <<"2", ":", "0", "5">>

\* C17 witness: formatTimestamp(125) has returned "2:05".
C17_Witness ==
  /\ call.fn = "formatTimestamp"
  /\ call.seconds = 125
  /\ ret = Some(<<"2", ":", "0", "5">>)

\* the path of a request target: what comes before the query string
PathOf(url) ==
  IF \E k \in 1..Len(url) : url[k] = "?"
  THEN SubSeq(url, 1, (CHOOSE k \in 1..Len(url) :
                         url[k] = "?" /\ \A j \in 1..(k - 1) : url[j] # "?") - 1)
  ELSE url

\* the health server has answered a request
Answered == call.fn = "server" /\ ret # None

\* the answer is the 200 with the fixed JSON body, or the 404
WellFormedAnswer ==
  /\ The(ret).status \in {200, 404}
  /\ The(ret).status = 200 =>
       /\ The(ret).contentType = Some("application/json")
       /\ The(ret).json = Some(<< <<"status", "ok">>,
                                  <<"service", "spartan-video-extractor">> >>)
  /\ The(ret).status = 404 => The(ret).json = None /\ The(ret).text = Some("Not Found")

\* C18 as stated: the answer is the 200 with the fixed JSON body if and only if
\* the request is a GET for the path /health, and 404 otherwise.
C18_OkIffGetHealth ==
  Answered =>
    /\ WellFormedAnswer
    /\ The(ret).status = 200 <=>
         (call.method = "GET" /\ PathOf(call.url) = <<"/","h","e","a","l","t","h">>)

\* C18 amended: the answer is the 200 with the fixed JSON body if and only if
\* the request target is exactly "/health", whatever the method, and 404
\* "Not Found" otherwise (also for /health with a query string); it is the
\* same in every state of the event being handled.
C18_OkIffUrlIsHealth ==
  Answered =>
    /\ WellFormedAnswer
    /\ The(ret).status = 200 <=> call.url = <<"/","h","e","a","l","t","h">>

\* C18 witness: a POST of /health was answered 200 while the handler was
\* waiting for the download.
C18_Witness ==
  /\ Answered
  /\ call.method = "POST"
  /\ call.url = <<"/","h","e","a","l","t","h">>
  /\ The(ret).status = 200
  /\ pc[1] = "writer"

\* the phase a status text shows
PhaseOf(text) ==
  CASE text.icon = "check_mark"     -> "success"
    [] text.icon = "cross_mark"     -> "error"
    [] text.words[1] = "Processing" -> "processing"
    [] OTHER                        -> "extracted"

\* the changes of phase that move forward
ForwardPhases ==
  { <<"processing", "extracted">>, <<"extracted", "success">>, <<"processing", "error">> }

\* the calls that change the Status Message, and those that make it terminal
UpdateOps ==
  {"chat.update.nourl", "chat.update.noframes", "chat.update.extracted",
   "chat.update.complete"}
TerminalUpdateOps == {"chat.update.nourl", "chat.update.noframes", "chat.update.complete"}

\* every event has at most one message, the one its handler holds as statusMsg;
\* the handler posts once, and calls no update after a terminal one
OneStatusMessage ==
  \A e \in EventIds :
    /\ Cardinality(OwnedMessages(e)) <= 1
    /\ OwnedMessages(e) = statusMsg[e]
    /\ Cardinality({k \in 1..Len(log[e]) : log[e][k] = En("chat.postMessage", 0, "call")}) <= 1
    /\ \A k \in 1..Len(log[e]) :
         log[e][k].op \in TerminalUpdateOps =>
           \A j \in (k + 1)..Len(log[e]) :
             log[e][j].op \in UpdateOps => log[e][j].op = log[e][k].op /\ j = k + 1

\* a step keeps every message in its place and changes at most its text, by a
\* step of the handler that posted it and forward by one phase; a new message
\* is the first one of its handler and shows the processing phase
StatusMovesForward ==
  /\ Len(messages') >= Len(messages)
  /\ \A m \in 1..Len(messages) :
       /\ messages'[m] = [messages[m] EXCEPT !.text = messages'[m].text]
       /\ messages'[m].text # messages[m].text =>
            /\ log'[messages[m].by] # log[messages[m].by]
            /\ statusMsg[messages[m].by] = Some(m)
            /\ <<PhaseOf(messages[m].text), PhaseOf(messages'[m].text)>> \in ForwardPhases
  /\ \A m \in (Len(messages) + 1)..Len(messages') :
       /\ m = Len(messages) + 1
       /\ PhaseOf(messages'[m].text) = "processing"
       /\ statusMsg[messages'[m].by] = None
       /\ statusMsg'[messages'[m].by] = Some(m)

\* C19: per event the handler posts at most one Status Message; every later
\* status change is an update in place of that message; its phases move
\* forward only (processing, extracted, success; or processing, error), and a
\* terminal text is never updated again.
C19_SingleStatusMessageMovesForward == []OneStatusMessage /\ [][StatusMovesForward]_vars

\* C19 witness: the message of one event has reached success and the message
\* of the other event an error, and these are the only two messages.
C19_Witness ==
  \E e1, e2 \in EventIds :
    /\ Ended(e1) /\ Ended(e2)
    /\ Len(messages) = 2
    /\ statusMsg[e1] # None /\ statusMsg[e2] # None
    /\ PhaseOf(messages[The(statusMsg[e1])].text) = "success"
    /\ PhaseOf(messages[The(statusMsg[e2])].text) = "error"

\* the entries of the reaction swap: reactions.remove and the 'complete' reactions.add
IsSwapEntry(en) == en.op = "reactions.remove" \/ (en.op = "reactions.add" /\ en.k = 1)

\* all N >= 1 frames of e were uploaded, each successfully and in its place
AllFramesUploaded(e) ==
  LET N == Len(frames[e])
  IN /\ N >= 1
     /\ Len(UploadsOf(e)) = N
     /\ \A k \in 1..N :
          /\ UploadsOf(e)[k].file = frames[e][k]
          /\ \E j \in 1..Len(log[e]) : log[e][j] = En("files.uploadV2", k, "ok")
     /\ \A j \in 1..Len(log[e]) : log[e][j].op = "files.uploadV2" => log[e][j].ev # "fail"

\* C20: the Status Message shows success only after all N >= 1 sampled frames
\* were uploaded successfully; the count named in the interim and success
\* texts is the number of frames, which at success is the number of uploads
\* performed; the reaction swap is attempted only after the success update;
\* and a handler that ended without the success update attempted no swap and
\* changed no reaction beyond the 'processing' one it may have added.
C20_SuccessAfterAllUploads ==
  \A e \in EventIds :
    statusMsg[e] # None =>
      LET text == messages[The(statusMsg[e])].text
      IN /\ PhaseOf(text) = "success" =>
              /\ AllFramesUploaded(e)
              /\ text.count = Len(UploadsOf(e))
              /\ \E k \in 1..Len(log[e]) : log[e][k] = En("chat.update.complete", text.count, "ok")
         /\ PhaseOf(text) = "extracted" =>
              /\ text.count = Len(frames[e])
              /\ text.count >= 1
              /\ Len(UploadsOf(e)) <= text.count
         /\ \A k \in 1..Len(log[e]) :
              IsSwapEntry(log[e][k]) =>
                /\ PhaseOf(text) = "success"
                /\ \E j \in 1..(k - 1) : log[e][j].op = "chat.update.complete" /\ log[e][j].ev = "ok"
         /\ (Ended(e) /\ PhaseOf(text) # "success") =>
              /\ \A k \in 1..Len(log[e]) : ~IsSwapEntry(log[e][k])
              /\ messageTs[e] # None =>
                   /\ <<The(messageTs[e]), "white_check_mark">> \notin reactions
                   /\ (\E k \in 1..Len(log[e]) : log[e][k] = En("reactions.add", 0, "ok"))
                        => <<The(messageTs[e]), "hourglass_flowing_sand">> \in reactions

\* C20 witness: a handler has uploaded its three frames, shown success and
\* swapped the reactions.
C20_Witness ==
  \E e \in EventIds :
    /\ Ended(e)
    /\ statusMsg[e] # None
    /\ PhaseOf(messages[The(statusMsg[e])].text) = "success"
    /\ messages[The(statusMsg[e])].text.count = 3
    /\ Len(UploadsOf(e)) = 3
    /\ messageTs[e] # None
    /\ <<The(messageTs[e]), "white_check_mark">> \in reactions
    /\ <<The(messageTs[e]), "hourglass_flowing_sand">> \notin reactions

=============================================================================
